---- MODULE Spec2Model ----
(***************************************************************************)
(* A model of pages/help_dialog_page.js: the string helpers (compareKeys,  *)
(* ellipsize, isAdvancedCommand), the row computation (getRowsForDialog,   *)
(* getRowEl) and the page controller driven by inbound messages and        *)
(* clicks.                                                                 *)
(*                                                                         *)
(* A JavaScript string is a sequence of one-character strings.  Command    *)
(* names and group names are only compared for equality and are TLA+       *)
(* strings.                                                                *)
(***************************************************************************)
EXTENDS Integers, Sequences, FiniteSets, TLC

\* ------------------------------------------------------------------ bounds

\* Longest string handed to ellipsize on its own.
MaxStr == 4
\* Longest key label and longest key list handed to compareKeys / sort.
MaxLabel == 2
MaxKeys == 2
\* Longest option-string and longest description handed to getRowEl.
MaxOpt == 5
MaxDesc == 42
\* Most entries of a generated binding table.
MaxEntries == 2

\* ----------------------------------------------------------------- strings

Min(a, b) == IF a < b THEN a ELSE b
Max(a, b) == IF a > b THEN a ELSE b

\* The characters the model uses, in the order of their UTF-16 code units.
CodeOrder ==
  <<"-", ".", "<", ">", "D", "R", "a", "c", "d", "e", "h", "j", "n", "o", "r", "w", "~">>

\* A character's rank among the model's characters (order-isomorphic to its code unit).
charCode(c) == CHOOSE i \in 1..Len(CodeOrder) : CodeOrder[i] = c

\* All strings over alphabet S of length at most n.
StringsUpTo(S, n) == UNION {[1..k -> S] : k \in 0..n}

\* The string of n copies of character c.
Repeat(c, n) == [i \in 1..n |-> c]

\* JavaScript's a < b on strings: lexicographic on code units.
StrLess(a, b) ==
  \E k \in 0..Min(Len(a), Len(b)) :
    /\ \A i \in 1..k : a[i] = b[i]
    /\ \/ k = Len(a) /\ k < Len(b)
       \/ k < Len(a) /\ k < Len(b) /\ charCode(a[k + 1]) < charCode(b[k + 1])

\* String.prototype.replace with a one-character string pattern: the FIRST
\* occurrence only.
replace(s, from, to) ==
  IF \A i \in 1..Len(s) : s[i] # from
    THEN s
    ELSE LET first == CHOOSE i \in 1..Len(s) :
                        s[i] = from /\ \A j \in 1..(i - 1) : s[j] # from
         IN [s EXCEPT ![first] = to]

\* String.prototype.substring(0, end), end >= 0.
substring0(s, end) == SubSeq(s, 1, Min(end, Len(s)))

\* String.prototype.includes.
includes(s, sub) ==
  \E i \in 0..(Len(s) - Len(sub)) : SubSeq(s, i + 1, i + Len(sub)) = sub

\* --------------------------------------------------------------- compareKeys

\* compareKeys without the substitution of "<": plain code-unit order.
compareKeysPlain(a, b) ==
  IF StrLess(a, b) THEN -1 ELSE IF StrLess(b, a) THEN 1 ELSE 0

compareKeys(a, b) ==
  LET a1 == replace(a, "<", "~")
      b1 == replace(b, "<", "~")
  IN IF StrLess(a1, b1) THEN -1 ELSE IF StrLess(b1, a1) THEN 1 ELSE 0

\* Array.prototype.sort(compareKeys): a stable sort (ECMAScript 2019).
RECURSIVE InsertKey(_, _)
InsertKey(sorted, key) ==
  IF sorted = <<>> THEN <<key>>
  ELSE LET last == sorted[Len(sorted)]
       IN IF compareKeys(last, key) <= 0
            THEN Append(sorted, key)
            ELSE Append(InsertKey(SubSeq(sorted, 1, Len(sorted) - 1), key), last)

RECURSIVE sortKeys(_)
sortKeys(keys) ==
  IF keys = <<>> THEN <<>>
  ELSE InsertKey(sortKeys(SubSeq(keys, 1, Len(keys) - 1)), keys[Len(keys)])

\* ----------------------------------------------------------------- ellipsize

ellipsis == <<".", ".", ".">>

\* ellipsize that cuts at maxLength without reserving room for the ellipsis.
ellipsizeNoReserve(s, maxLength) ==
  IF Len(s) <= maxLength THEN s
  ELSE substring0(s, Max(0, maxLength)) \o ellipsis

ellipsize(s, maxLength) ==
  IF Len(s) <= maxLength THEN s
  ELSE substring0(s, Max(0, maxLength - Len(ellipsis))) \o ellipsis

\* --------------------------------------------------------- isAdvancedCommand

hard == <<"h", "a", "r", "d">>

isAdvancedCommand(command, options) ==
  command.advanced \/ (command.name = "reload" /\ includes(options, hard))

\* ------------------------------------------------------------- binding table

\* A command definition of all_commands.js: [name, desc, group, advanced].
\* The binding table commandToOptionsToKeys is an object of objects; it is
\* modelled as the sequence of its entries in insertion order,
\*   <<[name |-> n, variations |-> <<[options |-> o, keys |-> ks], ...>>], ...>>,
\* with no name twice in a table and no option-string twice in an entry.

HasEntry(table, name) == \E i \in 1..Len(table) : table[i].name = name

\* commandToOptionsToKeys[name] || dflt
variationsOf(table, name, dflt) ==
  IF HasEntry(table, name)
    THEN table[CHOOSE i \in 1..Len(table) : table[i].name = name].variations
    ELSE dflt

\* The rows of one command: one per entry of its variations.
rowsOfCommand(command, variations) ==
  [i \in 1..Len(variations) |->
     [command |-> command, options |-> variations[i].options, keys |-> variations[i].keys]]

RECURSIVE rowsOfCommands(_, _, _)
rowsOfCommands(commands, table, dflt) ==
  IF commands = <<>> THEN <<>>
  ELSE rowsOfCommand(Head(commands), variationsOf(table, Head(commands).name, dflt))
         \o rowsOfCommands(Tail(commands), table, dflt)

groupsOf(commands) == {commands[i].group : i \in 1..Len(commands)}

\* Object.groupBy(allCommands, (o) => o.group)[group]
commandsOfGroup(commands, group) == SelectSeq(commands, LAMBDA c : c.group = group)

\* getRowsForDialog that lists an unbound command with an empty key list.
getRowsForDialogUnbound(commands, commandToOptionsToKeys) ==
  [group \in groupsOf(commands) |->
     rowsOfCommands(commandsOfGroup(commands, group), commandToOptionsToKeys,
                    <<[options |-> <<>>, keys |-> <<>>]>>)]

\* Returns: [group |-> <<[command, options, keys], ...>>]
getRowsForDialog(commands, commandToOptionsToKeys) ==
  [group \in groupsOf(commands) |->
     rowsOfCommands(commandsOfGroup(commands, group), commandToOptionsToKeys, <<>>)]

\* ------------------------------------------------------------------ getRowEl

maxLength == 40

\* The label's option part as getRowEl displays it.
optionsString(command, options) == ellipsize(options, maxLength - Len(command.desc))

\* getRowEl that sets the hover title whenever there are options.
getRowElAlwaysTitle(command, options, keys) ==
  [advanced |-> isAdvancedCommand(command, options),
   keys |-> sortKeys(keys),
   text |-> IF options # <<>>
              THEN command.desc \o <<" ", "(">> \o optionsString(command, options) \o <<")">>
              ELSE command.desc,
   title |-> IF options # <<>>
               THEN command.desc \o <<" ", "(">> \o options \o <<")">>
               ELSE <<>>]

\* The row element: the "advanced" class of .row, the texts of the .key nodes
\* in order, and the text and the title of .help-description (<<>>: no title).
getRowEl(command, options, keys) ==
  [advanced |-> isAdvancedCommand(command, options),
   keys |-> sortKeys(keys),
   text |-> IF options # <<>>
              THEN command.desc \o <<" ", "(">> \o optionsString(command, options) \o <<")">>
              ELSE command.desc,
   title |-> IF options # <<>> /\ optionsString(command, options) # options
               THEN command.desc \o <<" ", "(">> \o options \o <<")">>
               ELSE <<>>]

\* keys.sort(compareKeys) sorts the array it is given: what getRowEl leaves
\* in the key list of the table it was called with.
keysAfterGetRowEl(keys) == sortKeys(keys)

\* ====================================================================== state

VARIABLES
  call,             \* a call of one of the pure functions: its arguments and result
  dialogElement,    \* HelpDialogPage.dialogElement: "null" or "#dialog"
  listeners,        \* how many listeners init() has added, per element and event
  helpDialog_showAdvancedCommands,  \* the persisted setting (Settings.get / Settings.set)
  vis,              \* the show-advanced class of the dialog root and the toggle's caption
  versionText,      \* the text of #vimium-version
  containers,       \* the rows of each [data-group] container
  storage,          \* commandToOptionsToKeys in chrome.storage.session
  handlers,         \* the invocations of the message handler, in order of receipt
  hud,              \* the HUD indicator: "none", "indicator" or "abandoned"
  posted,           \* the outbound messages the last step posted
  toggled,          \* history: a toggle click has been handled
  before            \* history: the states before the latest run of consecutive toggle clicks

dialogVars ==
  <<dialogElement, listeners, helpDialog_showAdvancedCommands, vis, versionText,
    containers, storage, handlers, hud, posted, toggled, before>>

vars == <<call, dialogVars>>

\* ------------------------------------------------------------ the page's data

\* The command definitions the page imports (all_commands.js).
allCommands ==
  <<[name |-> "scrollDown", desc |-> <<"d", "o", "w", "n">>,
     group |-> "navigation", advanced |-> FALSE],
    [name |-> "reload", desc |-> <<"r", "e", "l", "o", "a", "d">>,
     group |-> "navigation", advanced |-> FALSE],
    [name |-> "createTab", desc |-> Repeat("d", maxLength - 2),
     group |-> "tabs", advanced |-> TRUE]>>

\* Binding tables the background page may have stored.
TableA ==
  <<[name |-> "scrollDown",
     variations |-> <<[options |-> <<>>, keys |-> << <<"<", "D", "o", "w", "n", ">">>, <<"j">> >>]>>]>>

TableB ==
  <<[name |-> "reload",
     variations |-> <<[options |-> hard, keys |-> << <<"R">> >>]>>],
    [name |-> "createTab",
     variations |-> <<[options |-> <<"a", "a", "a">>, keys |-> << <<"c">> >>]>>],
    [name |-> "scrollDown",
     variations |-> <<[options |-> <<>>, keys |-> << <<"j">> >>]>>]>>

Tables == {TableA, TableB}

ShowCaption == "Show advanced commands"
HideCaption == "Hide advanced commands"

NoCall == [fn |-> "none", args |-> <<>>, done |-> TRUE, ret |-> <<>>]

\* The page as loaded, before any message: no listener, the static document.
DialogInit ==
  /\ dialogElement = "null"
  /\ listeners = [close |-> 0, optionsClick |-> 0, optionsAuxclick |-> 0,
                  toggle |-> 0, document |-> 0]
  /\ helpDialog_showAdvancedCommands \in BOOLEAN
  /\ vis \in [showAdvanced : BOOLEAN, caption : {ShowCaption, HideCaption}]
  /\ versionText = ""
  /\ containers = [g \in groupsOf(allCommands) |-> <<>>]
  /\ storage \in Tables
  /\ handlers = <<>>
  /\ hud = "none"
  /\ posted = <<>>
  /\ toggled = FALSE
  /\ before = <<>>

\* ============================================================ pure functions

\* The inputs of the calls.
EllipsizeInputs ==
  {<<s, n>> : s \in StringsUpTo({"a", "."}, MaxStr), n \in (0 - 3)..(MaxStr + 1)}

Labels == StringsUpTo({"<", "a", "j", "~"}, MaxLabel) \ {<<>>}

SortLabels == (StringsUpTo({"<", "a", "j"}, 2) \ {<<>>}) \cup {<<"~">>}

KeyLists == StringsUpTo(SortLabels, MaxKeys)

DescLengths == {0, 15} \cup ((MaxDesc - 9)..MaxDesc)

RowCommands ==
  {[name |-> n, desc |-> Repeat("d", l), group |-> "navigation", advanced |-> a] :
     n \in {"reload", "scrollDown"}, l \in DescLengths, a \in BOOLEAN}

RowOptions == StringsUpTo({"a", "."}, MaxOpt) \cup {hard}

RowKeys == {<< <<"j">> >>, << <<"<", "a">>, <<"j">> >>}

CommandLists ==
  {allCommands,
   <<allCommands[3], allCommands[1]>>,
   <<allCommands[2]>>}

EntryNames == {"scrollDown", "reload", "createTab", "unknownCommand"}

\* The variations of an entry; an entry's key lists are never empty (the
\* table's producer adds an option-string together with its first key).
EntryVariations ==
  {<<>>,
   <<[options |-> <<>>, keys |-> << <<"j">> >>]>>,
   <<[options |-> hard, keys |-> << <<"R">>, <<"<", "a">> >>],
     [options |-> <<>>, keys |-> << <<"j">> >>]>>}

GenTables ==
  {t \in StringsUpTo([name : EntryNames, variations : EntryVariations], MaxEntries) :
     \A i, j \in 1..Len(t) : t[i].name = t[j].name => i = j}

Pending(fn, args) == [fn |-> fn, args |-> args, done |-> FALSE, ret |-> <<>>]

CallInputs ==
  {Pending("ellipsize", a) : a \in EllipsizeInputs}
    \cup {Pending("compareKeys", <<a, b>>) : a \in Labels, b \in Labels}
    \cup {Pending("sort", <<ks>>) : ks \in KeyLists}
    \cup {Pending("getRowEl", <<c, o, ks>>) : c \in RowCommands, o \in RowOptions, ks \in RowKeys}
    \cup {Pending("getRowsForDialog", <<cs, t>>) : cs \in CommandLists, t \in GenTables}

Return(value) == call' = [call EXCEPT !.done = TRUE, !.ret = value]

ApplyEllipsize ==
  /\ call.fn = "ellipsize" /\ ~call.done
  /\ Return(ellipsize(call.args[1], call.args[2]))
  /\ UNCHANGED dialogVars

ApplyCompareKeys ==
  /\ call.fn = "compareKeys" /\ ~call.done
  /\ Return(compareKeys(call.args[1], call.args[2]))
  /\ UNCHANGED dialogVars

ApplySort ==
  /\ call.fn = "sort" /\ ~call.done
  /\ Return(sortKeys(call.args[1]))
  /\ UNCHANGED dialogVars

ApplyGetRowEl ==
  /\ call.fn = "getRowEl" /\ ~call.done
  /\ Return(getRowEl(call.args[1], call.args[2], call.args[3]))
  /\ UNCHANGED dialogVars

ApplyGetRowsForDialog ==
  /\ call.fn = "getRowsForDialog" /\ ~call.done
  /\ Return(getRowsForDialog(call.args[1], call.args[2]))
  /\ UNCHANGED dialogVars

InitFn ==
  /\ call \in CallInputs
  /\ dialogElement = "null"
  /\ listeners = [close |-> 0, optionsClick |-> 0, optionsAuxclick |-> 0,
                  toggle |-> 0, document |-> 0]
  /\ helpDialog_showAdvancedCommands = FALSE
  /\ vis = [showAdvanced |-> FALSE, caption |-> ShowCaption]
  /\ versionText = ""
  /\ containers = [g \in groupsOf(allCommands) |-> <<>>]
  /\ storage = TableA
  /\ handlers = <<>>
  /\ hud = "none"
  /\ posted = <<>>
  /\ toggled = FALSE
  /\ before = <<>>

NextFn ==
  \/ ApplyEllipsize
  \/ ApplyCompareKeys
  \/ ApplySort
  \/ ApplyGetRowEl
  \/ ApplyGetRowsForDialog

SpecFn == InitFn /\ [][NextFn]_vars

\* ================================================================ the dialog

\* Most inbound messages received in a run.
MaxMessages == 2

\* HelpDialogPage.init without its guard: it adds the listeners on every call.
HelpDialogPage_initUnguarded(el, ls) ==
  [dialogElement |-> "#dialog",
   listeners |-> [close |-> ls.close + 1,
                  optionsClick |-> ls.optionsClick + 1,
                  optionsAuxclick |-> ls.optionsAuxclick + 1,
                  toggle |-> ls.toggle + 1,
                  document |-> ls.document + 1]]

\* HelpDialogPage.init(): the element and the listeners it leaves.
HelpDialogPage_init(el, ls) ==
  IF el # "null"
    THEN [dialogElement |-> el, listeners |-> ls]
    ELSE [dialogElement |-> "#dialog",
          listeners |-> [close |-> ls.close + 1,
                         optionsClick |-> ls.optionsClick + 1,
                         optionsAuxclick |-> ls.optionsAuxclick + 1,
                         toggle |-> ls.toggle + 1,
                         document |-> ls.document + 1]]

\* showAdvancedCommands that swaps the two captions.
showAdvancedCommandsSwapped(visible) ==
  [showAdvanced |-> visible, caption |-> IF visible THEN ShowCaption ELSE HideCaption]

\* showAdvancedCommands(visible): the caption and the class it leaves.
showAdvancedCommands(visible) ==
  [showAdvanced |-> visible, caption |-> IF visible THEN HideCaption ELSE ShowCaption]

\* toggleAdvancedCommands that does not save the setting.
toggleAdvancedCommandsUnsaved(setting) ==
  [vis |-> showAdvancedCommands(~setting), setting |-> setting]

\* toggleAdvancedCommands(event), from the setting it reads: what it shows
\* and the setting it saves.  (The scroll position it then adjusts depends on
\* the layout and is not part of the state.)
toggleAdvancedCommands(setting) ==
  [vis |-> showAdvancedCommands(~setting), setting |-> ~setting]

\* A click runs every listener added for it, in turn.
RECURSIVE toggleTimes(_, _)
toggleTimes(n, state) ==
  IF n = 0 THEN state ELSE toggleTimes(n - 1, toggleAdvancedCommands(state.setting))

\* show() filling a container without emptying it first.
fillContainerUncleared(old, rows) ==
  old \o [i \in 1..Len(rows) |-> getRowEl(rows[i].command, rows[i].options, rows[i].keys)]

\* show(): container.innerHTML = "", then one appended row element per row.
fillContainer(old, rows) ==
  [i \in 1..Len(rows) |-> getRowEl(rows[i].command, rows[i].options, rows[i].keys)]

\* All containers after show() has rendered the fetched table.
renderTable(old, table) ==
  LET rowsByGroup == getRowsForDialog(allCommands, table)
  IN [g \in DOMAIN old |->
        IF g \in DOMAIN rowsByGroup THEN fillContainer(old[g], rowsByGroup[g]) ELSE old[g]]

\* The fetched table object after show(): getRowEl has sorted, in place, the
\* key list of every row, that is of every entry of a known command.
tableAfterShow(table) ==
  [e \in 1..Len(table) |->
     IF \E c \in 1..Len(allCommands) : allCommands[c].name = table[e].name
       THEN [table[e] EXCEPT !.variations =
               [v \in 1..Len(table[e].variations) |->
                  [table[e].variations[v] EXCEPT !.keys = keysAfterGetRowEl(@)]]]
       ELSE table[e]]

Handler(name) == [name |-> name, pc |-> "onLoaded", fetched |-> <<>>, after |-> <<>>]

Done(h) == [name |-> handlers[h].name, pc |-> "done", fetched |-> <<>>, after |-> <<>>]

At(h, name, pc) == handlers[h].name = name /\ handlers[h].pc = pc

\* A show() has run to its end.
Shown == \E h \in 1..Len(handlers) : handlers[h].name = "show" /\ handlers[h].pc \in {"showReturned", "done"}

Snapshot ==
  [setting |-> helpDialog_showAdvancedCommands, vis |-> vis, containers |-> containers,
   shown |-> Shown]

\* What a step that is not a toggle click leaves of the history.
NoToggle == before' = <<>> /\ UNCHANGED toggled

\* The host posts a message; the registered handler starts and suspends on
\* Settings.onLoaded().
Receive(name) ==
  /\ Len(handlers) < MaxMessages
  /\ handlers' = Append(handlers, Handler(name))
  /\ posted' = <<>>
  /\ NoToggle
  /\ UNCHANGED <<call, dialogElement, listeners, helpDialog_showAdvancedCommands, vis,
                 versionText, containers, storage, hud>>

\* Settings.onLoaded() resolves; the handler suspends on Utils.populateBrowserInfo().
SettingsLoaded(h) ==
  /\ handlers[h].pc = "onLoaded"
  /\ handlers' = [handlers EXCEPT ![h].pc = "browserInfo"]
  /\ posted' = <<>>
  /\ NoToggle
  /\ UNCHANGED <<call, dialogElement, listeners, helpDialog_showAdvancedCommands, vis,
                 versionText, containers, storage, hud>>

\* case "hide": HelpDialogPage.hide() posts "hide".
HandleHide(h) ==
  /\ At(h, "hide", "browserInfo")
  /\ handlers' = [handlers EXCEPT ![h] = Done(h)]
  /\ posted' = <<"hide">>
  /\ NoToggle
  /\ UNCHANGED <<call, dialogElement, listeners, helpDialog_showAdvancedCommands, vis,
                 versionText, containers, storage, hud>>

\* case "hidden": HUD.abandon().
HandleHidden(h) ==
  /\ At(h, "hidden", "browserInfo")
  /\ handlers' = [handlers EXCEPT ![h] = Done(h)]
  /\ hud' = "abandoned"
  /\ posted' = <<>>
  /\ NoToggle
  /\ UNCHANGED <<call, dialogElement, listeners, helpDialog_showAdvancedCommands, vis,
                 versionText, containers, storage>>

\* case "show": HelpDialogPage.init(), then show() up to its await of
\* chrome.storage.session.get.
HandleShow(h) ==
  /\ At(h, "show", "browserInfo")
  /\ LET r == HelpDialogPage_init(dialogElement, listeners)
     IN dialogElement' = r.dialogElement /\ listeners' = r.listeners
  /\ versionText' = "current version"
  /\ handlers' = [handlers EXCEPT ![h].pc = "storageGet"]
  /\ posted' = <<>>
  /\ NoToggle
  /\ UNCHANGED <<call, helpDialog_showAdvancedCommands, vis, containers, storage, hud>>

\* The storage area answers the get with the table it holds.
StorageRespond(h) ==
  /\ At(h, "show", "storageGet")
  /\ handlers' = [handlers EXCEPT ![h].pc = "fetched", ![h].fetched = storage]
  /\ posted' = <<>>
  /\ NoToggle
  /\ UNCHANGED <<call, dialogElement, listeners, helpDialog_showAdvancedCommands, vis,
                 versionText, containers, storage, hud>>

\* show() resumes with the table and runs to its end without suspending:
\* the rows, the advanced visibility, the simulated click on the dialog root
\* (its target is the dialog, so the document's listener posts nothing).
ShowResume(h) ==
  /\ At(h, "show", "fetched")
  /\ containers' = renderTable(containers, handlers[h].fetched)
  /\ vis' = showAdvancedCommands(helpDialog_showAdvancedCommands)
  /\ handlers' = [handlers EXCEPT ![h].pc = "showReturned",
                                  ![h].after = tableAfterShow(handlers[h].fetched)]
  /\ posted' = <<>>
  /\ NoToggle
  /\ UNCHANGED <<call, dialogElement, listeners, helpDialog_showAdvancedCommands,
                 versionText, storage, hud>>

\* The handler resumes after show(): Mode.setIndicator().
SetIndicator(h) ==
  /\ At(h, "show", "showReturned")
  /\ hud' = "indicator"
  /\ handlers' = [handlers EXCEPT ![h] = Done(h)]
  /\ posted' = <<>>
  /\ NoToggle
  /\ UNCHANGED <<call, dialogElement, listeners, helpDialog_showAdvancedCommands, vis,
                 versionText, containers, storage>>

\* The background page stores another binding table.
StorageChange ==
  /\ \E t \in Tables \ {storage} : storage' = t
  /\ posted' = <<>>
  /\ NoToggle
  /\ UNCHANGED <<call, dialogElement, listeners, helpDialog_showAdvancedCommands, vis,
                 versionText, containers, handlers, hud>>

\* A click on #close: each listener posts "hide"; the click's target is
\* inside the dialog, so the document's listener posts nothing.
ClickClose ==
  /\ listeners.close > 0
  /\ posted' = [i \in 1..listeners.close |-> "hide"]
  /\ NoToggle
  /\ UNCHANGED <<call, dialogElement, listeners, helpDialog_showAdvancedCommands, vis,
                 versionText, containers, storage, handlers, hud>>

\* A click outside the dialog: each listener of the document posts "hide".
ClickOutside ==
  /\ listeners.document > 0
  /\ posted' = [i \in 1..listeners.document |-> "hide"]
  /\ NoToggle
  /\ UNCHANGED <<call, dialogElement, listeners, helpDialog_showAdvancedCommands, vis,
                 versionText, containers, storage, handlers, hud>>

\* A click or a middle click on #options-page.
ClickOptions ==
  /\ \E n \in {listeners.optionsClick, listeners.optionsAuxclick} :
       /\ n > 0
       /\ posted' = [i \in 1..n |-> "openOptionsPageInNewTab"]
  /\ NoToggle
  /\ UNCHANGED <<call, dialogElement, listeners, helpDialog_showAdvancedCommands, vis,
                 versionText, containers, storage, handlers, hud>>

\* A click on the toggle link: each listener runs toggleAdvancedCommands.
ClickToggle ==
  /\ listeners.toggle > 0
  /\ LET r == toggleTimes(listeners.toggle,
                          [vis |-> vis, setting |-> helpDialog_showAdvancedCommands])
     IN vis' = r.vis /\ helpDialog_showAdvancedCommands' = r.setting
  /\ toggled' = TRUE
  /\ before' = IF Len(before) < 2 THEN Append(before, Snapshot) ELSE <<before[2], Snapshot>>
  /\ posted' = <<>>
  /\ UNCHANGED <<call, dialogElement, listeners, versionText, containers, storage,
                 handlers, hud>>

Init == call = NoCall /\ DialogInit

Next ==
  \/ \E name \in {"show", "hide", "hidden"} : Receive(name)
  \/ \E h \in 1..Len(handlers) : SettingsLoaded(h)
  \/ \E h \in 1..Len(handlers) : HandleHide(h)
  \/ \E h \in 1..Len(handlers) : HandleHidden(h)
  \/ \E h \in 1..Len(handlers) : HandleShow(h)
  \/ \E h \in 1..Len(handlers) : StorageRespond(h)
  \/ \E h \in 1..Len(handlers) : ShowResume(h)
  \/ \E h \in 1..Len(handlers) : SetIndicator(h)
  \/ StorageChange
  \/ ClickClose
  \/ ClickOutside
  \/ ClickOptions
  \/ ClickToggle

Spec == Init /\ [][Next]_vars

\* ==================================================== claims: pure functions

EndsWith(s, suffix) ==
  Len(s) >= Len(suffix) /\ SubSeq(s, Len(s) - Len(suffix) + 1, Len(s)) = suffix

Contains(s, c) == \E i \in 1..Len(s) : s[i] = c

Returned(fn) == call.fn = fn /\ call.done

\* C1 as stated: ellipsize(s, n) is s when length(s) <= n; otherwise it has
\* length exactly n and ends with "...", for every n, n < 3 and n <= 0 included.
C1_AsStated ==
  Returned("ellipsize") =>
    LET s == call.args[1]
        n == call.args[2]
    IN IF Len(s) <= n
         THEN call.ret = s
         ELSE Len(call.ret) = n /\ EndsWith(call.ret, ellipsis)

\* C1, amended: ellipsize(s, n) is s when length(s) <= n; otherwise it ends
\* with "..." and its length is n when n >= 3 and 3 (the ellipsis alone) when
\* n < 3.
C1_Ellipsize ==
  Returned("ellipsize") =>
    LET s == call.args[1]
        n == call.args[2]
    IN IF Len(s) <= n
         THEN call.ret = s
         ELSE Len(call.ret) = Max(n, Len(ellipsis)) /\ EndsWith(call.ret, ellipsis)

\* ellipsize has cut a string for a maxLength below the ellipsis' length.
C1_Witness ==
  /\ Returned("ellipsize")
  /\ Len(call.args[1]) > call.args[2]
  /\ call.args[2] < Len(ellipsis)
  /\ call.ret = ellipsis

\* The option part of a row's label: the text between "<desc> (" and ")".
ShownOptions(command, row) == SubSeq(row.text, Len(command.desc) + 3, Len(row.text) - 1)

FullTitle(command, options) == command.desc \o <<" ", "(">> \o options \o <<")">>

\* C2 as stated: with a non-empty option-string the description is kept whole,
\* description plus displayed options take at most 40 characters, and the
\* title is "<description> (<full options>)" exactly when the displayed
\* options differ from the original.
C2_AsStated ==
  (Returned("getRowEl") /\ call.args[2] # <<>>) =>
    LET command == call.args[1]
        options == call.args[2]
        shown == ShownOptions(command, call.ret)
    IN /\ call.ret.text = command.desc \o <<" ", "(">> \o shown \o <<")">>
       /\ Len(command.desc) + Len(shown) <= maxLength
       /\ shown # options => call.ret.title = FullTitle(command, options)
       /\ shown = options => call.ret.title = <<>>

\* C2, amended: as stated, except that the displayed options take at most
\* max(40 - length(description), 3) characters: a description of 38
\* characters or more leaves the ellipsis alone, which overruns the 40.
C2_RowLabel ==
  (Returned("getRowEl") /\ call.args[2] # <<>>) =>
    LET command == call.args[1]
        options == call.args[2]
        shown == ShownOptions(command, call.ret)
    IN /\ call.ret.text = command.desc \o <<" ", "(">> \o shown \o <<")">>
       /\ Len(shown) <= Max(maxLength - Len(command.desc), Len(ellipsis))
       /\ shown # options => call.ret.title = FullTitle(command, options)
       /\ shown = options => call.ret.title = <<>>

\* getRowEl has truncated the options of a description that leaves them
\* fewer than 3 characters, and has set the title.
C2_Witness ==
  /\ Returned("getRowEl")
  /\ call.args[2] # <<>>
  /\ Len(call.args[1].desc) > maxLength - Len(ellipsis)
  /\ ShownOptions(call.args[1], call.ret) = ellipsis
  /\ call.ret.title = FullTitle(call.args[1], call.args[2])

\* label i of the list comes before label j
Precedes(list, P(_), Q(_)) ==
  \E i, j \in 1..Len(list) : i < j /\ P(list[i]) /\ Q(list[j])

Plain(k) == ~Contains(k, "<") /\ (k # <<>> => charCode(k[1]) < charCode("~"))

StartsWithMarker(k) == k # <<>> /\ k[1] = "<"

RowPlaces(result) ==
  UNION {{<<g, i>> : i \in 1..Len(result[g])} : g \in DOMAIN result}

Unbound(table, name) == ~HasEntry(table, name) \/ variationsOf(table, name, <<>>) = <<>>

\* C4: every row of getRowsForDialog is a (command, option-string, key-list)
\* entry of the binding table, listed under the command's group; a command
\* of the command list that is absent from the table, or has no bound keys,
\* has no row in any group; and every table entry of a known command yields
\* exactly one row, in that command's group.
C4_RowsOnlyForBoundCommands ==
  Returned("getRowsForDialog") =>
    LET commands == call.args[1]
        table == call.args[2]
        result == call.ret
        rowAt(p) == result[p[1]][p[2]]
    IN /\ \A p \in RowPlaces(result) :
            /\ rowAt(p).command.group = p[1]
            /\ \E c \in 1..Len(commands) : commands[c] = rowAt(p).command
            /\ \E e \in 1..Len(table) :
                 /\ table[e].name = rowAt(p).command.name
                 /\ \E v \in 1..Len(table[e].variations) :
                      table[e].variations[v] =
                        [options |-> rowAt(p).options, keys |-> rowAt(p).keys]
       /\ \A c \in 1..Len(commands) :
            Unbound(table, commands[c].name) =>
              \A p \in RowPlaces(result) : rowAt(p).command.name # commands[c].name
       /\ \A c \in 1..Len(commands), e \in 1..Len(table) :
            table[e].name = commands[c].name =>
              \A v \in 1..Len(table[e].variations) :
                LET row == [command |-> commands[c],
                            options |-> table[e].variations[v].options,
                            keys |-> table[e].variations[v].keys]
                    places == {p \in RowPlaces(result) : rowAt(p) = row}
                IN Cardinality(places) = 1 /\ \A p \in places : p[1] = commands[c].group

\* getRowsForDialog has returned rows for a table that binds one known
\* command twice, binds an unknown command, and leaves a known command out.
C4_Witness ==
  /\ Returned("getRowsForDialog")
  /\ \E c \in 1..Len(call.args[1]) : ~HasEntry(call.args[2], call.args[1][c].name)
  /\ \E e \in 1..Len(call.args[2]) :
       /\ Len(call.args[2][e].variations) = 2
       /\ \E c \in 1..Len(call.args[1]) : call.args[1][c].name = call.args[2][e].name
  /\ HasEntry(call.args[2], "unknownCommand")
  /\ Cardinality(RowPlaces(call.ret)) = 2

\* =========================================================== claims: dialog

\* C5 as stated: when show() has returned, the fetched binding table holds
\* in every key list the same labels in the same order as when it was fetched.
C5_AsStated ==
  \A h \in 1..Len(handlers) :
    At(h, "show", "showReturned") => handlers[h].after = handlers[h].fetched

\* C6: after two toggle clicks in succession, from a state reached after a
\* show, the persisted setting, the show-advanced class, the caption and the
\* rendered rows are what they were before the first of the two.
C6_ToggleRoundTrip ==
  (Len(before) = 2 /\ before[1].shown) =>
    /\ helpDialog_showAdvancedCommands = before[1].setting
    /\ vis = before[1].vis
    /\ containers = before[1].containers

\* Two toggle clicks in succession after a show that rendered rows; the
\* first of them changed the setting and the class.
C6_Witness ==
  /\ Len(before) = 2
  /\ before[1].shown
  /\ before[2].setting # before[1].setting
  /\ before[2].vis # before[1].vis
  /\ \E g \in DOMAIN containers : containers[g] # <<>>

ListenersAdded(n) ==
  listeners = [close |-> n, optionsClick |-> n, optionsAuxclick |-> n,
               toggle |-> n, document |-> n]

\* C7: whatever "show" messages were handled, overlapping or not, every
\* listener is added exactly once (none before the first init); a toggle
\* click flips the setting once and a close click posts one "hide".
C7_InitOnce ==
  /\ [](IF dialogElement = "null" THEN ListenersAdded(0) ELSE ListenersAdded(1))
  /\ [][ClickToggle =>
          helpDialog_showAdvancedCommands' = ~helpDialog_showAdvancedCommands]_vars
  /\ [][ClickClose => posted' = <<"hide">>]_vars

\* Two "show" handlers are suspended on the storage fetch, both after
\* init(), and a click has posted one "hide".
C7_Witness ==
  /\ Len(handlers) = 2
  /\ \A h \in 1..2 : handlers[h].name = "show" /\ handlers[h].pc \in {"storageGet", "fetched"}
  /\ ListenersAdded(1)
  /\ posted = <<"hide">>

\* C8: once a show() has completed or a toggle click was handled, the class
\* is present iff the setting is true and the caption is "Hide advanced
\* commands" iff the class is present; the visibility changes only when a
\* show() completes (to the setting) or on a toggle click (the setting
\* flipped, and with it the class); "hide" and "hidden" leave it alone.
C8_Visibility ==
  /\ []((Shown \/ toggled) =>
          /\ vis.showAdvanced <=> helpDialog_showAdvancedCommands
          /\ vis.caption = HideCaption <=> vis.showAdvanced)
  /\ [][(vis' # vis \/ helpDialog_showAdvancedCommands' # helpDialog_showAdvancedCommands)
          => (ClickToggle \/ \E h \in 1..Len(handlers) : ShowResume(h))]_vars
  /\ [][(\E h \in 1..Len(handlers) : ShowResume(h)) =>
          /\ vis'.showAdvanced = helpDialog_showAdvancedCommands
          /\ UNCHANGED helpDialog_showAdvancedCommands]_vars
  /\ [][ClickToggle =>
          /\ helpDialog_showAdvancedCommands' = ~helpDialog_showAdvancedCommands
          /\ vis'.showAdvanced = helpDialog_showAdvancedCommands'
          /\ (Shown \/ toggled) => vis'.showAdvanced = ~vis.showAdvanced]_vars
  /\ [][(\E h \in 1..Len(handlers) : HandleHide(h) \/ HandleHidden(h)) =>
          UNCHANGED <<vis, helpDialog_showAdvancedCommands>>]_vars

\* A show has completed, a toggle click has shown the advanced commands,
\* and a "hidden" message has been handled since.
C8_Witness ==
  /\ Shown
  /\ toggled
  /\ vis.showAdvanced
  /\ \E h \in 1..Len(handlers) : At(h, "hidden", "done")

\* The rows of every container for binding table t.
RowsOf(t) ==
  LET rowsByGroup == getRowsForDialog(allCommands, t)
  IN [g \in DOMAIN rowsByGroup |->
        [i \in 1..Len(rowsByGroup[g]) |->
           getRowEl(rowsByGroup[g][i].command, rowsByGroup[g][i].options,
                    rowsByGroup[g][i].keys)]]

\* C9: once a show() has completed, the containers together hold exactly
\* the rows of one binding table: nothing left over, nothing twice, no
\* mixture of two tables, however the "show" handlers overlapped.
C9_NoAccumulation == Shown => \E t \in Tables : containers = RowsOf(t)

\* Two "show" handlers overlapped: the one received second has finished, the
\* one received first has just rendered a different table over its rows.
C9_Witness ==
  /\ Len(handlers) >= 2
  /\ At(1, "show", "showReturned")
  /\ At(2, "show", "done")
  /\ containers = RowsOf(handlers[1].fetched)
  /\ storage # handlers[1].fetched

AllDone == \A h \in 1..Len(handlers) : handlers[h].pc = "done"

\* C10 as stated: when a "hidden" message was received after a "show" and no
\* "show" after it, the HUD is abandoned once every handler has finished.
C10_AsStated ==
  (/\ AllDone
   /\ \E j \in 1..Len(handlers) :
        /\ handlers[j].name = "hidden"
        /\ \E i \in 1..(j - 1) : handlers[i].name = "show"
        /\ \A k \in (j + 1)..Len(handlers) : handlers[k].name # "show")
    => hud = "abandoned"

====
